---- MODULE Spec2Model ----
(***************************************************************************)
(* edge2html (src/index.js): renders the .edge templates of a source       *)
(* directory into .html files of a destination directory, once (--build)   *)
(* and/or on every file-system event of a chokidar watcher (--dev).        *)
(*                                                                         *)
(* Strings are sequences of one-character strings, so that includes,       *)
(* replace, slice, endsWith and startsWith are computed as JavaScript      *)
(* computes them.  The source directory is the flat list of entries that   *)
(* fs.readdir(src) returns and that edge.render(basename) resolves.        *)
(* The template engine, the beautifier and the file system are external:   *)
(* a rendered text is the record of everything the engine read.            *)
(***************************************************************************)
EXTENDS Integers, Sequences, FiniteSets, TLC

(***************************************************************************)
(* Bounds of the exploration.                                              *)
(***************************************************************************)
MaxEvents == 2        \* file-system changes the environment makes in one run
MaxInflight == 2      \* pending timers plus running handlers at one time
MaxNameLen == 3       \* characters of a path below the source root, less .edge
MaxTextLen == 3       \* pieces of a rendered text handed to importSvg/importText

(***************************************************************************)
(* JavaScript string primitives.                                           *)
(***************************************************************************)
startsWith(s, p) == Len(s) >= Len(p) /\ SubSeq(s, 1, Len(p)) = p

endsWith(s, p) == Len(s) >= Len(p) /\ SubSeq(s, Len(s) - Len(p) + 1, Len(s)) = p

\* String.prototype.includes
includes(s, p) == \E i \in 0..(Len(s) - Len(p)) : SubSeq(s, i + 1, i + Len(p)) = p

\* the least 0-based index at which p occurs in s, or -1
indexOf(s, p) ==
    IF includes(s, p)
    THEN CHOOSE i \in 0..(Len(s) - Len(p)) :
            /\ SubSeq(s, i + 1, i + Len(p)) = p
            /\ \A j \in 0..(i - 1) : SubSeq(s, j + 1, j + Len(p)) # p
    ELSE -1

\* String.prototype.replace with a string pattern: the first occurrence only
replace(s, p, r) ==
    IF indexOf(s, p) < 0 THEN s
    ELSE SubSeq(s, 1, indexOf(s, p)) \o r \o SubSeq(s, indexOf(s, p) + Len(p) + 1, Len(s))

\* s.slice(0, -n)
sliceEnd(s, n) == SubSeq(s, 1, Len(s) - n)

\* the greatest 1-based position of character c in s, or 0
lastPos(s, c) ==
    IF \E i \in 1..Len(s) : s[i] = c
    THEN CHOOSE i \in 1..Len(s) : s[i] = c /\ \A j \in (i + 1)..Len(s) : s[j] # c
    ELSE 0

\* filename.split('/').pop()
basename(p) == SubSeq(p, lastPos(p, "/") + 1, Len(p))

\* path.parse(target): the extension starts at the last dot of the base name,
\* unless that dot is its first character
parse(p) ==
    LET base == basename(p)
        dot == lastPos(base, ".")
    IN  IF dot > 1
        THEN [name |-> SubSeq(base, 1, dot - 1), ext |-> SubSeq(base, dot, Len(base))]
        ELSE [name |-> base, ext |-> <<>>]

(***************************************************************************)
(* Command line: <src> <dst>, and the extensions the program tests for.    *)
(***************************************************************************)
src == <<"s">>
dst == <<"d">>

EdgeExt == <<".", "e", "d", "g", "e">>
JsonExt == <<".", "j", "s", "o", "n">>
HtmlTail == <<"h", "t", "m", "l">>

\* the entries the source directory can hold
Names == {<<"a">>, <<"b">>, <<"_", "p">>}

pathOf(n) == src \o <<"/">> \o n \o EdgeExt
DataPath == src \o <<"/", "d", "a", "t", "a">> \o JsonExt
OtherPath == src \o <<"/", "x", ".", "c", "s", "s">>

nameOf(p) == parse(p).name

\* the texts an editor saves: a revision mark; page a includes the partial _p
Includer == <<"a">>
Revisions == {<<"1">>, <<"2">>}
TextsOf(n) == IF n = Includer THEN {r \o <<"@", "_", "p">> : r \in Revisions} ELSE Revisions

\* a second partial, which the partial _p can include
Chained == <<"_", "q">>
ChainTexts(n) ==
    IF n = <<"_", "p">> THEN {r \o <<"@">> \o Chained : r \in Revisions} ELSE TextsOf(n)

\* data.json on disk: a context value, or a missing/malformed file
DataValues == {1, 2}
Broken == 0

(***************************************************************************)
(* State.                                                                  *)
(***************************************************************************)
VARIABLES
    flags,       \* process.argv: [dev, build]
    alive,       \* the process is running
    tree,        \* the source directory: name -> text, for the entries that exist
    datafile,    \* data.json on disk
    data,        \* the module variable data: the Render Context in memory
    dest,        \* the destination directory: path -> written content
    timers,      \* setTimeout callbacks not yet run, in the order they were set
    handlers,    \* async invocations suspended at an await
    events,      \* file-system changes made so far
    last,        \* the step that led to the current state
    call         \* a function applied on its own: [fn, arg, out]

vars == <<flags, alive, tree, datafile, data, dest, timers, handlers, events, last, call>>

NoCall == [fn |-> "none", arg |-> <<>>, out |-> <<>>]

NoFile == [p \in {} |-> <<>>]

isPartial(p) == startsWith(nameOf(p), <<"_">>)
isPage(p) == parse(p).ext = EdgeExt /\ ~isPartial(p)

(***************************************************************************)
(* The template engine (external): edge.render(basename, data) reads the   *)
(* template of that name under the mounted directory and every partial it  *)
(* includes, directly or through other partials.                           *)
(***************************************************************************)
directIncludes(n, t) == {m \in Names \cup {Chained} : includes(t[n], <<"@">> \o m)}

RECURSIVE closure(_, _, _)
closure(S, t, k) ==
    IF k = 0 THEN S
    ELSE closure(S \cup UNION {directIncludes(n, t) : n \in S \cap DOMAIN t}, t, k - 1)

allIncludes(n, t) == closure(directIncludes(n, t), t, Cardinality(Names) + 1)

\* the engine finds the template and every partial it includes
renders(base, t) ==
    /\ parse(base).name \in DOMAIN t
    /\ allIncludes(parse(base).name, t) \subseteq DOMAIN t

\* a render that depends on how often the program has run
edgeRenderStamped(base, ctx, t) ==
    [file   |-> base,
     text   |-> t[parse(base).name],
     ctx    |-> ctx + events,
     parts  |-> {<<m, t[m]>> : m \in allIncludes(parse(base).name, t)},
     pretty |-> FALSE]

edgeRender(base, ctx, t) ==
    [file   |-> base,
     text   |-> t[parse(base).name],
     ctx    |-> ctx,
     parts  |-> {<<m, t[m]>> : m \in allIncludes(parse(base).name, t)},
     pretty |-> FALSE]

\* condense-newlines and js-beautify (external)
beautify(content) == [content EXCEPT !.pretty = TRUE]

\* renderToHtml after the engine returned
postRender(content) == IF flags.build THEN beautify(content) ELSE content

\* the mapping with the dot of the extension cut off as well
setDestNoDot(file) == sliceEnd(replace(file, src, dst), 5) \o HtmlTail

\* setDest
setDest(file) == sliceEnd(replace(file, src, dst), 4) \o HtmlTail

\* fs.readdir(src): the .edge entries, data.json and the other files
entries == {n \o EdgeExt : n \in DOMAIN tree} \cup {basename(DataPath), basename(OtherPath)}

\* util.readdir(path, extname) with prependPath
readdir(path, extname) == {f \in {path \o <<"/">> \o e : e \in entries} : endsWith(f, extname)}

\* allFiles
allFiles == readdir(src, EdgeExt)

\* getData: util.requireUncached
getDataThrows == datafile = Broken
getData == datafile

(***************************************************************************)
(* Handlers: one record per async invocation suspended at an await.        *)
(*   pc = "scanList"  getChangedTarget awaits allFiles()                   *)
(*        "scanRead"  getChangedTarget awaits util.readFile(files)         *)
(*        "jsonList"  the .json case awaits allFiles()                     *)
(*        "rm"        the unlink case awaits util.rm                       *)
(*        "htmlList"  html(null) awaits allFiles()                         *)
(*        "render"    html awaits Promise.all(files.map(renderToHtml))     *)
(*        "write"     html awaits util.writeFile                           *)
(***************************************************************************)
invocation(event, target, pc) ==
    [event |-> event, target |-> target, pc |-> pc, files |-> {}, targets |-> {},
     ctx |-> 0, pending |-> {}, contents |-> NoFile, wpending |-> {}]

\* the argument of html: null (the default) or a list of files
Null == [null |-> TRUE, files |-> {}]
list(files) == [null |-> FALSE, files |-> files]

\* an empty list taken for the default
listsAllIfEmpty(arg) == arg.null \/ arg.files = {}

\* html, line 92: files === null
listsAll(arg) == arg.null

\* html up to its first await; ctx is the value of data that the calls
\* renderToHtml(file) hand to edge.render.  Yields the suspended invocation,
\* or none when html returns without waiting for any file.
htmlFiles(h, files, ctx) ==
    IF files = {} THEN <<>>
    ELSE <<[h EXCEPT !.pc = "render", !.targets = files, !.ctx = ctx,
                     !.pending = files, !.contents = NoFile, !.wpending = {}]>>

html(h, arg, ctx) ==
    IF listsAll(arg) THEN <<[h EXCEPT !.pc = "htmlList"]>>
    ELSE htmlFiles(h, arg.files, ctx)

\* the record of a step: what ran, for which event, on which file, whether
\* it called html and with which files (for a write: the files written),
\* whether it threw, what the invocation had listed and rendered before and
\* which renders it awaited, and whether any callback has thrown so far
step(op, h, file, called, targets, threw) ==
    [op |-> op, event |-> h.event, target |-> h.target, file |-> file,
     called |-> called, targets |-> targets, threw |-> threw,
     files |-> h.files, contents |-> h.contents, pending |-> h.pending,
     failed |-> last.failed \/ threw]

\* an async callback rejects with nobody awaiting it (lines 105 and 203):
\* the runtime ends the process (--unhandled-rejections=throw, the default
\* of current Node.js) or only warns (older Node.js)
unhandled(restTimers, restHandlers) ==
    \/ alive' = FALSE /\ timers' = <<>> /\ handlers' = <<>>
    \/ alive' = TRUE /\ timers' = restTimers /\ handlers' = restHandlers

\* a page change that re-renders every file
pageTargetsAll(target) == allFiles \cup {target}

\* getChangedTarget, the page branch (line 169)
pageTargets(target) == {target}

\* the scan with the operands of includes exchanged
partialTargetsSwapped(name, files) == {f \in files : includes(name, tree[nameOf(f)])}

\* getChangedTarget, the partial branch (lines 162-167)
partialTargets(name, files) == {f \in files : includes(tree[nameOf(f)], name)}

\* the removed path without the change of directory
removedTargetInSrc(target) == sliceEnd(target, 4) \o HtmlTail

\* line 120
removedTarget(target) == sliceEnd(replace(target, src, dst), 4) \o HtmlTail

(***************************************************************************)
(* The environment: an editor changes the watched directory and chokidar   *)
(* emits the event; the 'all' listener sets a 200 ms timer (line 105).     *)
(***************************************************************************)
\* The editor is taken to start once the initial build pass, if any, is over.
watching == /\ alive /\ flags.dev
            /\ \A i \in 1..Len(handlers) : handlers[i].event # "build"
            /\ events < MaxEvents
            /\ Len(timers) + Len(handlers) < MaxInflight

emit(event, target) ==
    /\ timers' = Append(timers, [event |-> event, target |-> target])
    /\ events' = events + 1
    /\ last' = step("fs", invocation(event, target, "timer"), target, FALSE, {}, FALSE)
    /\ UNCHANGED <<call, flags, alive, data, dest, handlers>>

Save(n, text) ==
    /\ watching /\ n \in DOMAIN tree /\ text # tree[n]
    /\ tree' = [tree EXCEPT ![n] = text]
    /\ emit("change", pathOf(n))
    /\ UNCHANGED datafile

Create(n, text) ==
    /\ watching /\ n \notin DOMAIN tree
    /\ tree' = [m \in DOMAIN tree \cup {n} |-> IF m = n THEN text ELSE tree[m]]
    /\ emit("add", pathOf(n))
    /\ UNCHANGED datafile

Delete(n) ==
    /\ watching /\ n \in DOMAIN tree
    /\ tree' = [m \in DOMAIN tree \ {n} |-> tree[m]]
    /\ emit("unlink", pathOf(n))
    /\ UNCHANGED datafile

SaveData(v) ==
    /\ watching /\ v # datafile
    /\ datafile' = v
    /\ emit("change", DataPath)
    /\ UNCHANGED tree

SaveOther ==
    /\ watching
    /\ emit("change", OtherPath)
    /\ UNCHANGED <<tree, datafile>>

(***************************************************************************)
(* The timer callback (lines 105-134) up to its first await.               *)
(***************************************************************************)
due == alive /\ timers # <<>>

\* case '.edge', 'add' or 'change': getChangedTarget
TimerEdgeChange ==
    /\ due
    /\ LET t == Head(timers)
           changed == parse(t.target)
           h == invocation(t.event, t.target, "timer")
       IN  /\ changed.ext = EdgeExt /\ t.event \in {"add", "change"}
           /\ IF startsWith(changed.name, <<"_">>)
              THEN /\ handlers' = Append(handlers, [h EXCEPT !.pc = "scanList"])
                   /\ last' = step("timer", h, t.target, FALSE, {}, FALSE)
              ELSE /\ handlers' = handlers \o html(h, list(pageTargets(t.target)), data)
                   /\ last' = step("timer", h, t.target, TRUE, pageTargets(t.target), FALSE)
    /\ timers' = Tail(timers)
    /\ UNCHANGED <<call, flags, alive, tree, datafile, data, dest, events>>

\* case '.edge', 'unlink'
TimerEdgeUnlink ==
    /\ due
    /\ LET t == Head(timers)
           h == invocation(t.event, t.target, "rm")
       IN  /\ parse(t.target).ext = EdgeExt /\ t.event = "unlink"
           /\ handlers' = Append(handlers, [h EXCEPT !.files = {removedTarget(t.target)}])
           /\ last' = step("timer", h, t.target, FALSE, {}, FALSE)
    /\ timers' = Tail(timers)
    /\ UNCHANGED <<call, flags, alive, tree, datafile, data, dest, events>>

\* case '.json': data = getData(), then allFiles()
TimerJson ==
    /\ due
    /\ LET t == Head(timers)
           h == invocation(t.event, t.target, "jsonList")
       IN  /\ parse(t.target).ext = JsonExt
           /\ IF getDataThrows
              THEN /\ unhandled(Tail(timers), handlers)
                   /\ data' = data
                   /\ last' = step("timer", h, t.target, FALSE, {}, TRUE)
              ELSE /\ data' = getData
                   /\ timers' = Tail(timers)
                   /\ handlers' = Append(handlers, h)
                   /\ alive' = alive
                   /\ last' = step("timer", h, t.target, FALSE, {}, FALSE)
    /\ UNCHANGED <<call, flags, tree, datafile, dest, events>>

\* any other extension: targets stays [] and html([]) is called
TimerOther ==
    /\ due
    /\ LET t == Head(timers)
           h == invocation(t.event, t.target, "timer")
       IN  /\ parse(t.target).ext \notin {EdgeExt, JsonExt}
           /\ handlers' = handlers \o html(h, list({}), data)
           /\ last' = step("timer", h, t.target, TRUE, {}, FALSE)
    /\ timers' = Tail(timers)
    /\ UNCHANGED <<call, flags, alive, tree, datafile, data, dest, events>>

(***************************************************************************)
(* Resumptions of a suspended invocation.                                  *)
(***************************************************************************)
at(i, pc) == alive /\ i \in 1..Len(handlers) /\ handlers[i].pc = pc

\* handlers with invocation i replaced by r (a sequence of none or one)
resumed(i, r) == SubSeq(handlers, 1, i - 1) \o r \o SubSeq(handlers, i + 1, Len(handlers))

\* getChangedTarget line 160: allFiles() returns
ScanList(i) ==
    /\ at(i, "scanList")
    /\ handlers' = [handlers EXCEPT ![i].pc = "scanRead", ![i].files = allFiles]
    /\ last' = step("scanList", handlers[i], handlers[i].target, FALSE, {}, FALSE)
    /\ UNCHANGED <<call, flags, alive, tree, datafile, data, dest, timers, events>>

\* getChangedTarget lines 161-171: util.readFile(files) returns, or rejects
\* when a listed file is gone; then html(targets)
ScanRead(i) ==
    /\ at(i, "scanRead")
    /\ LET h == handlers[i]
           name == parse(h.target).name
       IN  IF \E f \in h.files : nameOf(f) \notin DOMAIN tree
           THEN /\ unhandled(timers, resumed(i, <<>>))
                /\ last' = step("scanRead", h, h.target, FALSE, {}, TRUE)
           ELSE /\ handlers' = resumed(i, html(h, list(partialTargets(name, h.files)), data))
                /\ last' = step("scanRead", h, h.target, TRUE, partialTargets(name, h.files), FALSE)
                /\ UNCHANGED <<alive, timers>>
    /\ UNCHANGED <<call, flags, tree, datafile, data, dest, events>>

\* line 130: allFiles() returns; then html(targets)
JsonList(i) ==
    /\ at(i, "jsonList")
    /\ handlers' = resumed(i, html(handlers[i], list(allFiles), data))
    /\ last' = step("jsonList", handlers[i], handlers[i].target, TRUE, allFiles, FALSE)
    /\ UNCHANGED <<call, flags, alive, tree, datafile, data, dest, timers, events>>

\* fs.rm without the catch: a missing path rejects
rmRejectsMissing(paths) == paths \ DOMAIN dest # {}

\* util.rm, line 50: .catch((e) => undefined) turns every rejection of fs.rm
\* into a normal return
rmRejects(paths) == FALSE

\* line 121: util.rm returns; then html([])
Rm(i) ==
    /\ at(i, "rm")
    /\ IF rmRejects(handlers[i].files)
       THEN /\ unhandled(timers, resumed(i, <<>>))
            /\ dest' = dest
            /\ last' = step("rm", handlers[i], handlers[i].target, FALSE, {}, TRUE)
       ELSE /\ dest' = [p \in DOMAIN dest \ handlers[i].files |-> dest[p]]
            /\ handlers' = resumed(i, html(handlers[i], list({}), data))
            /\ last' = step("rm", handlers[i], handlers[i].target, TRUE, {}, FALSE)
            /\ UNCHANGED <<alive, timers>>
    /\ UNCHANGED <<call, flags, tree, datafile, data, events>>

\* html line 92: allFiles() returns
HtmlList(i) ==
    /\ at(i, "htmlList")
    /\ handlers' = resumed(i, htmlFiles(handlers[i], allFiles, data))
    /\ last' = step("htmlList", handlers[i], handlers[i].target, FALSE, allFiles, FALSE)
    /\ UNCHANGED <<call, flags, alive, tree, datafile, data, dest, timers, events>>

\* the context read when the render returns
renderCtxLate(h) == data

\* renderToHtml line 72: edge.render(..., data) is called for every file of
\* the batch in the synchronous files.map of line 95, before any await
\* resumes: every render of the batch gets the value data had then
renderCtx(h) == h.ctx

\* html line 95: one renderToHtml(file) returns or throws.  The first throw
\* rejects Promise.all, and html with it; once all have returned, line 96
\* starts every write.
Render(i, f) ==
    /\ at(i, "render") /\ f \in handlers[i].pending
    /\ LET h == handlers[i]
           content == postRender(edgeRender(basename(f), renderCtx(h), tree))
           got == [p \in DOMAIN h.contents \cup {f} |->
                       IF p = f THEN content ELSE h.contents[p]]
       IN  IF ~renders(basename(f), tree)
           THEN /\ unhandled(timers, resumed(i, <<>>))
                /\ last' = step("render", h, f, FALSE, {}, TRUE)
           ELSE /\ handlers' = [handlers EXCEPT
                       ![i].contents = got,
                       ![i].pending = h.pending \ {f},
                       ![i].pc = IF h.pending = {f} THEN "write" ELSE "render",
                       ![i].wpending = IF h.pending = {f} THEN h.targets ELSE {}]
                /\ last' = step("render", h, f, FALSE, {}, FALSE)
                /\ UNCHANGED <<alive, timers>>
    /\ UNCHANGED <<call, flags, tree, datafile, data, dest, events>>

\* util.writeFile(destFiles, contents), lines 33-39: the destination tree d
\* with every file of the batch overwritten
written(h, d) ==
    LET destFiles == {setDest(f) : f \in h.wpending}
        from(p) == CHOOSE f \in h.wpending : setDest(f) = p
    IN  [p \in DOMAIN d \cup destFiles |->
            IF p \in destFiles THEN h.contents[from(p)] ELSE d[p]]

\* html lines 96-98: util.writeFile(destFiles, contents) returns, every file
\* written; html returns
Write(i) ==
    /\ at(i, "write")
    /\ LET h == handlers[i]
       IN  /\ dest' = written(h, dest)
           /\ handlers' = resumed(i, <<>>)
           /\ last' = step("write", h, h.target, FALSE, h.wpending, FALSE)
    /\ UNCHANGED <<call, flags, alive, tree, datafile, data, timers, events>>

(***************************************************************************)
(* The program: data = getData() (line 63), then main (lines 203-210).     *)
(***************************************************************************)
main == invocation("build", <<>>, "main")

\* the step record of the start of main
started ==
    [op |-> "main", event |-> "build", target |-> <<>>, file |-> <<>>,
     called |-> flags.build, targets |-> {}, threw |-> FALSE,
     files |-> {}, contents |-> NoFile, pending |-> {}, failed |-> FALSE]

Init ==
    /\ flags \in [dev : BOOLEAN, build : BOOLEAN]
    /\ alive = TRUE
    /\ tree = [n \in Names |-> CHOOSE text \in TextsOf(n) : startsWith(text, <<"1">>)]
    /\ datafile = 1
    /\ data = 1
    /\ dest = NoFile
    /\ timers = <<>>
    /\ handlers = IF flags.build THEN html(main, Null, 1) ELSE <<>>
    /\ events = 0
    /\ last = started
    /\ call = NoCall

Next ==
    \/ \E n \in Names : \E text \in TextsOf(n) : Save(n, text)
    \/ \E n \in Names : \E text \in TextsOf(n) : Create(n, text)
    \/ \E n \in Names : Delete(n)
    \/ \E v \in DataValues \cup {Broken} : SaveData(v)
    \/ SaveOther
    \/ TimerEdgeChange
    \/ TimerEdgeUnlink
    \/ TimerJson
    \/ TimerOther
    \/ \E i \in 1..Len(handlers) : ScanList(i)
    \/ \E i \in 1..Len(handlers) : ScanRead(i)
    \/ \E i \in 1..Len(handlers) : JsonList(i)
    \/ \E i \in 1..Len(handlers) : Rm(i)
    \/ \E i \in 1..Len(handlers) : HtmlList(i)
    \/ \E i \in 1..Len(handlers) : \E f \in handlers[i].pending : Render(i, f)
    \/ \E i \in 1..Len(handlers) : Write(i)

Spec == Init /\ [][Next]_vars

(***************************************************************************)
(* Properties.                                                             *)
(***************************************************************************)
pagesOfTree == {pathOf(n) : n \in {m \in DOMAIN tree : ~startsWith(m, <<"_">>)}}
watchEvent == last.event \in {"add", "change", "unlink"}

\* C1: when the handler of an add/change event on a partial P lists the
\* directory, it lists every page of the source tree, and the targets it then
\* passes to html contain every listed page whose content, as read, contains
\* P's bare name.
C1_PartialImpact ==
    /\ (last.op = "scanList" /\ isPartial(last.target)) =>
          \E i \in 1..Len(handlers) :
              /\ handlers[i].pc = "scanRead" /\ handlers[i].target = last.target
              /\ pagesOfTree \subseteq handlers[i].files
    /\ (last.op = "scanRead" /\ last.event \in {"add", "change"}
            /\ isPartial(last.target) /\ ~last.threw) =>
          /\ last.called
          /\ \A q \in pagesOfTree \cap last.files :
                includes(tree[nameOf(q)], nameOf(last.target)) => q \in last.targets

\* a partial was saved and the page that includes it was passed to html
C1_Witness ==
    /\ last.op = "scanRead" /\ last.event = "change" /\ isPartial(last.target)
    /\ pathOf(Includer) \in last.targets
    /\ includes(tree[Includer], nameOf(last.target))

\* C2: an add/change event on a page P calls html with exactly {P}; the
\* batch of that event renders P only and writes the render of P to P's
\* destination only.
C2_PageImpact ==
    /\ (last.op = "timer" /\ last.event \in {"add", "change"} /\ isPage(last.target)) =>
          last.called /\ last.targets = {last.target}
    /\ \A i \in 1..Len(handlers) :
          (handlers[i].event \in {"add", "change"} /\ isPage(handlers[i].target)) =>
              /\ handlers[i].targets = {handlers[i].target}
              /\ DOMAIN handlers[i].contents \subseteq {handlers[i].target}
    /\ (last.op = "render" /\ last.event \in {"add", "change"} /\ isPage(last.target)) =>
          last.file = last.target
    /\ (last.op = "write" /\ last.event \in {"add", "change"} /\ isPage(last.target)) =>
          /\ last.targets = {last.target}
          /\ setDest(last.target) \in DOMAIN dest
          /\ dest[setDest(last.target)].file = basename(last.target)
          /\ nameOf(last.target) \in DOMAIN tree =>
                dest[setDest(last.target)].text \in TextsOf(nameOf(last.target))

\* a page was saved and its batch wrote its destination while another page
\* is in the source tree
C2_Witness ==
    /\ last.op = "write" /\ last.event = "change" /\ isPage(last.target)
    /\ setDest(last.target) \in DOMAIN dest
    /\ pagesOfTree \ {last.target} # {}

partialDests == {setDest(pathOf(n)) : n \in {m \in Names : startsWith(m, <<"_">>)}}

\* C3: the destination tree never holds the mapped destination of a partial.
C3_NoPartialInDest == DOMAIN dest \cap partialDests = {}

\* C4: when a render failure ends a batch, every page of the batch whose
\* render had succeeded is written with the content the batch rendered.
C4_FailureIsolated ==
    (last.op = "render" /\ last.threw) =>
        \A f \in DOMAIN last.contents :
            isPage(f) => /\ setDest(f) \in DOMAIN dest
                         /\ dest[setDest(f)] = last.contents[f]

\* C5: a timer callback never runs for an event while a later event on the
\* same path, raised before that callback was due, waits for its own
\* callback: the two are one dispatch.
C5_Coalesced ==
    last.op = "timer" => \A k \in 1..Len(timers) : timers[k].target # last.target

\* C6: an event on a .json path reloads data from disk and passes to html
\* exactly the pages of the source tree.
C6_ConfigImpact ==
    /\ (last.op = "timer" /\ parse(last.target).ext = JsonExt /\ ~last.threw) =>
          data = datafile
    /\ (last.op = "jsonList") => last.called /\ last.targets = pagesOfTree

\* C7: the unlink of a page P removes setDest(P) from the destination tree
\* and changes no other entry; the handler calls html with no file and ends
\* without a render or a write, and data is unchanged.
C7_DeleteExact ==
    [][(last'.op = "rm" /\ isPage(last'.target)) =>
          /\ dest' = [p \in DOMAIN dest \ {setDest(last'.target)} |-> dest[p]]
          /\ data' = data
          /\ last'.called /\ last'.targets = {}
          /\ Len(handlers') = Len(handlers) - 1
          /\ \A i \in 1..Len(handlers') : handlers'[i] \in {handlers[j] : j \in 1..Len(handlers)}]_vars

\* a page of a fully built tree was unlinked: its destination is gone and
\* the destinations of the other files are there
C7_Witness ==
    /\ last.op = "rm" /\ isPage(last.target)
    /\ DOMAIN dest = {setDest(pathOf(n)) : n \in Names} \ {setDest(last.target)}

\* C8: when the reload of data.json fails in the timer callback, data and
\* the destination tree are unchanged and the process keeps running.
C8_ReloadFailureSkipped ==
    [][(last'.op = "timer" /\ last'.threw) =>
          data' = data /\ dest' = dest /\ alive']_vars

\* C9: the unlink of a partial leaves the destination tree unchanged and
\* calls html with no file.
C9_PartialDeleteNoop ==
    [][(last'.op = "rm" /\ isPartial(last'.target)) =>
          dest' = dest /\ last'.called /\ last'.targets = {}]_vars

\* C10: a file written by the handler of a watch event is not beautified.
C10_WatchNotBeautified ==
    (last.op = "write" /\ watchEvent) =>
        \A f \in last.targets : ~dest[setDest(f)].pretty

\* C12: the handler of an unlink event never throws and leaves the process
\* running; when the mapped destination does not exist the destination tree
\* is unchanged; removing the same destination once more from the tree it
\* leaves changes nothing.
C12_DeleteIdempotent ==
    [][last'.op = "rm" =>
          LET once(d) == [p \in DOMAIN d \ {setDest(last'.target)} |-> d[p]]
          IN  /\ ~last'.threw /\ alive'
              /\ dest' = once(dest)
              /\ once(dest') = dest'
              /\ setDest(last'.target) \notin DOMAIN dest => dest' = dest]_vars

\* under --dev alone the first event was the unlink of a page, which had no
\* destination: the handler returned and the destination tree is still empty
C12_Witness ==
    /\ last.op = "rm" /\ isPage(last.target) /\ ~last.threw
    /\ ~flags.build /\ events = 1
    /\ dest = NoFile /\ alive

\* no event waits for its callback and no handler is suspended
quiescent == alive /\ timers = <<>> /\ handlers = <<>>

\* the render of file from the sources and the data as they are now
fresh(file) == postRender(edgeRender(basename(file), data, tree))

\* C15: once no event is pending and every batch has completed without
\* failure, the destination of each page the last batch wrote equals the
\* render of the page's current source under the current data.
C15_QuiescentFresh ==
    (quiescent /\ ~last.failed /\ last.op = "write" /\ watchEvent) =>
        \A f \in last.targets :
            (isPage(f) /\ renders(basename(f), tree)) => dest[setDest(f)] = fresh(f)

\* C16: once the unlink of a page has been handled and every batch is over,
\* the page not having been created again, its destination is absent from
\* the destination tree.
C16_DeletedStaysDeleted ==
    quiescent =>
        \A n \in Names \ DOMAIN tree :
            isPage(pathOf(n)) => setDest(pathOf(n)) \notin DOMAIN dest

\* C17: when a render of a batch throws and html fails with it, no other
\* render of that batch is still awaited.
C17_JoinedBeforeFailure ==
    (last.op = "render" /\ last.threw) => last.pending = {last.file}

C19_OneContextPerBatch ==
    /\ [](\A i \in 1..Len(handlers) :
            \A f \in DOMAIN handlers[i].contents :
                handlers[i].contents[f].ctx = handlers[i].ctx)
    /\ [](last.op = "write" =>
            \A f, g \in DOMAIN last.contents : last.contents[f].ctx = last.contents[g].ctx)
    /\ [][last'.op = "jsonList" =>
            \A i \in 1..Len(handlers') :
                (i <= Len(handlers) /\ handlers[i].pc = "jsonList"
                    /\ handlers'[i].pc = "render") => handlers'[i].ctx = data']_vars
    /\ [][data' # data =>
            /\ last'.op = "timer" /\ parse(last'.target).ext = JsonExt /\ ~last'.threw
            /\ data' = datafile]_vars

\* data was reloaded while a batch had rendered one of its files and not yet
\* the other; both are rendered with the value the batch started with
C19_Witness ==
    /\ last.op = "render" /\ ~last.threw
    /\ \E i \in 1..Len(handlers) :
          /\ handlers[i].ctx # data
          /\ Cardinality(DOMAIN handlers[i].contents) >= 2
          /\ last.file \in DOMAIN handlers[i].contents
          /\ \A f \in DOMAIN handlers[i].contents :
                handlers[i].contents[f].ctx = handlers[i].ctx

(***************************************************************************)
(* The path mapping on its own: setDest (line 148) and the expression of   *)
(* the unlink case (line 120), applied to the paths of .edge files under   *)
(* the source root, subdirectories and names that repeat the root's name   *)
(* included.                                                               *)
(***************************************************************************)
PathChars == {"a", "s", "d", ".", "/"}

\* the paths below the source root: no empty segment
SubPaths ==
    {n \in UNION {[1..k -> PathChars] : k \in 1..MaxNameLen} :
        /\ n[1] # "/" /\ n[Len(n)] # "/"
        /\ \A i \in 1..(Len(n) - 1) : ~(n[i] = "/" /\ n[i + 1] = "/")}

EdgePaths == {pathOf(n) : n \in SubPaths}

\* the program is not running
idle ==
    /\ flags = [dev |-> FALSE, build |-> FALSE]
    /\ alive = FALSE
    /\ tree = NoFile
    /\ datafile = 1
    /\ data = 1
    /\ dest = NoFile
    /\ timers = <<>>
    /\ handlers = <<>>
    /\ events = 0
    /\ last = started

program == <<flags, alive, tree, datafile, data, dest, timers, handlers, events, last>>

InitPath == idle /\ call = NoCall

ApplySetDest(file) ==
    /\ call' = [fn |-> "setDest", arg |-> file, out |-> setDest(file)]
    /\ UNCHANGED program

ApplyRemovedTarget(target) ==
    /\ call' = [fn |-> "removedTarget", arg |-> target, out |-> removedTarget(target)]
    /\ UNCHANGED program

NextPath ==
    \/ \E file \in EdgePaths : ApplySetDest(file)
    \/ \E target \in EdgePaths : ApplyRemovedTarget(target)

SpecPath == InitPath /\ [][NextPath]_vars

\* the path with the source root at its front replaced by the destination
\* root and the .edge at its end replaced by .html
mirrored(file) ==
    dst \o SubSeq(file, Len(src) + 1, Len(file) - Len(EdgeExt)) \o <<".">> \o HtmlTail

\* C11: setDest maps a page path under the source root to the path with the
\* root replaced by the destination root and .edge replaced by .html; two
\* different page paths never get the same destination; the expression of
\* the unlink case gives the same destination as setDest.
C11_SetDestMapping ==
    /\ [](call.fn \in {"setDest", "removedTarget"} => call.out = mirrored(call.arg))
    /\ [][(call.fn = "setDest" /\ call'.fn = "setDest" /\ call.arg # call'.arg) =>
              call.out # call'.out]_vars
    /\ [][(call.fn = "setDest" /\ call'.fn = "removedTarget" /\ call.arg = call'.arg) =>
              call.out = call'.out]_vars

\* the unlink expression was applied to a path in a subdirectory whose name
\* repeats the source root's, and only the root at the front was replaced
C11_Witness ==
    /\ call.fn = "removedTarget"
    /\ includes(SubSeq(call.arg, Len(src) + 1, Len(call.arg)), <<"/">> \o src \o <<"/">>)
    /\ startsWith(call.out, dst \o <<"/">> \o src \o <<"/">>)
    /\ endsWith(call.out, <<".">> \o HtmlTail)

(***************************************************************************)
(* The build pass run again: edge2html <src> <dst> --build is started on   *)
(* a source directory and a data.json, and started again once the pass is  *)
(* over, nothing having been edited in between.                            *)
(***************************************************************************)
\* the source directories: each entry absent or at one of its texts
Trees == UNION {[S -> UNION {TextsOf(n) : n \in Names}] : S \in SUBSET Names}
SourceTrees == {t \in Trees : \A n \in DOMAIN t : t[n] \in TextsOf(n)}

InitTwice ==
    /\ flags = [dev |-> FALSE, build |-> TRUE]
    /\ alive = TRUE
    /\ tree \in SourceTrees
    /\ datafile \in DataValues
    /\ data = datafile
    /\ dest = NoFile
    /\ timers = <<>>
    /\ handlers = html(main, Null, data)
    /\ events = 0
    /\ last = started
    /\ call = NoCall

\* the program is started again: line 63, then main
RunAgain ==
    /\ handlers = <<>> /\ events < MaxEvents
    /\ ~getDataThrows
    /\ alive' = TRUE
    /\ data' = getData
    /\ handlers' = html(main, Null, getData)
    /\ events' = events + 1
    /\ last' = started
    /\ UNCHANGED <<call, flags, tree, datafile, dest, timers>>

NextTwice ==
    \/ RunAgain
    \/ \E i \in 1..Len(handlers) : HtmlList(i)
    \/ \E i \in 1..Len(handlers) : \E f \in handlers[i].pending : Render(i, f)
    \/ \E i \in 1..Len(handlers) : Write(i)

SpecTwice == InitTwice /\ [][NextTwice]_vars

ChainTree ==
    [n \in Names \cup {Chained} |-> CHOOSE text \in ChainTexts(n) : startsWith(text, <<"1">>)]

InitChain ==
    /\ flags = [dev |-> TRUE, build |-> TRUE]
    /\ alive = TRUE
    /\ tree = ChainTree
    /\ datafile = 1
    /\ data = 1
    /\ dest = NoFile
    /\ timers = <<>>
    /\ handlers = html(main, Null, 1)
    /\ events = 0
    /\ last = started
    /\ call = NoCall

NextChain ==
    \/ \E n \in {<<"_", "p">>, Chained} : \E text \in ChainTexts(n) : Save(n, text)
    \/ TimerEdgeChange
    \/ \E i \in 1..Len(handlers) : ScanList(i)
    \/ \E i \in 1..Len(handlers) : ScanRead(i)
    \/ \E i \in 1..Len(handlers) : HtmlList(i)
    \/ \E i \in 1..Len(handlers) : \E f \in handlers[i].pending : Render(i, f)
    \/ \E i \in 1..Len(handlers) : Write(i)

SpecChain == InitChain /\ [][NextChain]_vars

\* C14: once the handler of an add/change event on a partial P has finished
\* without failure, no other event having been raised, every page that
\* includes P directly or through other partials has a destination file
\* that equals the render of the current sources under the current data.
C14_TransitiveFresh ==
    (/\ alive /\ timers = <<>> /\ handlers = <<>>
     /\ events = 1 /\ ~last.failed
     /\ last.op \in {"scanRead", "write"}
     /\ last.event \in {"add", "change"} /\ isPartial(last.target)) =>
        \A q \in pagesOfTree :
            nameOf(last.target) \in allIncludes(nameOf(q), tree) =>
                /\ setDest(q) \in DOMAIN dest
                /\ dest[setDest(q)] = postRender(edgeRender(basename(q), data, tree))

(***************************************************************************)
(* Directive expansion on its own: importSvg (lines 174-189) and           *)
(* importText (lines 191-201) applied to a rendered text.  A text is a     *)
(* sequence of pieces: a piece is a stretch of plain text or one directive *)
(* string, @text('u'), @text('w') or @svg('u', {a}); two equal pieces are  *)
(* two occurrences of the same string.  The remote files are fetched       *)
(* without error.                                                          *)
(***************************************************************************)
plain(c) == [k |-> "chr", u |-> c, a |-> ""]
directive(kind, url, attr) == [k |-> kind, u |-> url, a |-> attr]

Pieces ==
    {plain("x"),
     directive("text", "u", ""), directive("text", "w", ""),
     directive("svg", "u", "{a}")}

RenderedTexts == UNION {[1..k -> Pieces] : k \in 1..MaxTextLen}

\* axios.get(url).then(res => res.data.trim()): the file at w quotes its own
\* directive
remote(kind, url) ==
    IF kind = "svg" THEN <<plain("<svg"), plain(">")>>
    ELSE IF url = "w" THEN <<plain("T"), directive("text", "w", "")>>
    ELSE <<plain("T")>>

\* a match that lists each distinct directive string once
matchDistinct(content, kind) ==
    LET all == SelectSeq(content, LAMBDA t : t.k = kind)
        firsts == {i \in 1..Len(all) : \A j \in 1..(i - 1) : all[j] # all[i]}
        RECURSIVE pick(_)
        pick(i) == IF i > Len(all) THEN <<>>
                   ELSE (IF i \in firsts THEN <<all[i]>> ELSE <<>>) \o pick(i + 1)
    IN  pick(1)

\* content.match(/@svg\(...\)/g), content.match(/@text\(...\)/g): every
\* match in the order of the text, one entry per occurrence
matchAll(content, kind) == SelectSeq(content, LAMBDA t : t.k = kind)

\* lines 181-184 and 196: the text put in the place of a tag
tagContent(tag) ==
    IF tag.k = "svg" /\ tag.a # ""
    THEN replace(remote(tag.k, tag.u), <<plain("<svg")>>, <<plain("<svg"), plain(tag.a)>>)
    ELSE remote(tag.k, tag.u)

\* the loop over the matches: content = content.replace(tag, tagContent)
RECURSIVE expand(_, _)
expand(content, tags) ==
    IF tags = <<>> THEN content
    ELSE expand(replace(content, <<Head(tags)>>, tagContent(Head(tags))), Tail(tags))

importSvg(content) == expand(content, matchAll(content, "svg"))

importText(content) == expand(content, matchAll(content, "text"))

InitImport == idle /\ call = NoCall

ApplyImportSvg(content) ==
    /\ call' = [fn |-> "importSvg", arg |-> content, out |-> importSvg(content)]
    /\ UNCHANGED program

ApplyImportText(content) ==
    /\ call' = [fn |-> "importText", arg |-> content, out |-> importText(content)]
    /\ UNCHANGED program

NextImport ==
    \/ \E content \in RenderedTexts : ApplyImportSvg(content)
    \/ \E content \in RenderedTexts : ApplyImportText(content)

SpecImport == InitImport /\ [][NextImport]_vars

\* what the applied function expands
kindOf(fn) == IF fn = "importSvg" THEN "svg" ELSE "text"

occurrences(content, piece) == Cardinality({i \in 1..Len(content) : content[i] = piece})

\* the directives of the call's kind in the text, none of them quoted by a
\* fetched file
expanded(content, kind) == {content[i] : i \in {j \in 1..Len(content) : content[j].k = kind}}
selfFree(content, kind) ==
    \A d \in expanded(content, kind) : \A i \in 1..Len(tagContent(d)) : tagContent(d)[i].k # kind

\* the text with every directive of the kind replaced where it stands
RECURSIVE substituted(_, _)
substituted(content, kind) ==
    IF content = <<>> THEN <<>>
    ELSE (IF Head(content).k = kind THEN tagContent(Head(content)) ELSE <<Head(content)>>)
             \o substituted(Tail(content), kind)

\* C20: when the same directive string appears twice in the text, and no
\* fetched file quotes a directive, exactly one occurrence of it is left in
\* the output.
C20_FirstOccurrenceOnly ==
    (call.fn \in {"importSvg", "importText"} /\ selfFree(call.arg, kindOf(call.fn))) =>
        \A d \in expanded(call.arg, kindOf(call.fn)) :
            occurrences(call.arg, d) = 2 => occurrences(call.out, d) = 1

\* C20 as amended: when no fetched file quotes a directive, every occurrence
\* of every directive is replaced where it stands by the fetched text, a
\* directive string that appears twice included: none is left in the output.
C20_EveryOccurrenceReplaced ==
    (call.fn \in {"importSvg", "importText"} /\ selfFree(call.arg, kindOf(call.fn))) =>
        /\ call.out = substituted(call.arg, kindOf(call.fn))
        /\ \A i \in 1..Len(call.out) : call.out[i].k # kindOf(call.fn)

\* importText was applied to a text with the same directive string twice,
\* and the fetched text stands twice in the output with no directive left
C20_Witness ==
    /\ call.fn = "importText"
    /\ occurrences(call.arg, directive("text", "u", "")) = 2
    /\ occurrences(call.out, directive("text", "u", "")) = 0
    /\ occurrences(call.out, plain("T")) = 2

====
